---- MODULE Spec2Model ----
(***************************************************************************)
(* Model of the launcher front-end (src/src/frontend.rs): the App session  *)
(* object, its terminal lifecycle (init / exit / Drop), the render step    *)
(* (update) and the key-event dispatcher (wait_input).                     *)
(*                                                                         *)
(* Rust's String is a UTF-8 byte vector: query is modelled as the sequence *)
(* of its bytes, String::len as the byte count, and String::insert and     *)
(* string slicing with their char-boundary checks (which panic).           *)
(* Option<usize> is modelled as a set: None == {} and Some(i) == {i}.      *)
(***************************************************************************)
EXTENDS Integers, Sequences, FiniteSets, TLC

\* ---- bounds of the model ----
MaxList == 3        \* longest candidate list handed to update
MaxQuery == 2       \* longest query, in bytes (one 2-byte character fits)

\* ---- inputs ----
Chars == {"a", "b", "e_acute"}      \* KeyCode::Char payloads: 'a', 'b', U+00E9
Prompts == {"> ", "run: "}
IgnoredEvents == {"Resize", "KeyRelease", "Esc"}

VARIABLES
    pc,            \* where the hosting process is with respect to the App
    running,       \* App.running
    rawMode,       \* terminal: raw input mode enabled
    altScreen,     \* terminal: alternate screen entered
    query,         \* App.query, as UTF-8 bytes
    prompt,        \* App.prompt
    cursor_index,  \* App.cursor_index
    list_len,      \* App.list_len
    list_state,    \* App.list_state.selected()
    completion,    \* App.completion
    index,         \* the caller's out-parameter of wait_input
    last,          \* the last operation, the key it handled and its result
    shown,         \* what the input field of the last drawn frame showed
    tabSince,      \* a Tab key was handled since the last drawn frame
    discarded,     \* the current wait_input call has discarded an event
    restoreLog,    \* restoration steps attempted by exit, in order
    cycle          \* the run of (Tab, render) pairs over one list, so far

vars == <<pc, running, rawMode, altScreen, query, prompt, cursor_index,
          list_len, list_state, completion, index, last, shown, tabSince,
          discarded, restoreLog, cycle>>

\* ---- Option<usize> ----
None == {}
Some(i) == {i}
Unwrap(o) == CHOOSE x \in o : TRUE

\* ---- UTF-8 strings ----
\* char::encode_utf8
Encode(ch) ==
    IF ch = "a" THEN <<97>>
    ELSE IF ch = "b" THEN <<98>>
    ELSE <<195, 169>>

\* a UTF-8 continuation byte (10xxxxxx)
IsContinuation(b) == b >= 128 /\ b < 192

\* str::is_char_boundary
is_char_boundary(s, i) ==
    \/ i = 0
    \/ i = Len(s)
    \/ i < Len(s) /\ ~IsContinuation(s[i + 1])

\* str::chars().count(): the length of s in characters
CharCount(s) == Cardinality({k \in 1..Len(s) : ~IsContinuation(s[k])})

\* &s[a..b]: defined only when the range is in bounds and on char boundaries
SliceOk(s, a, b) ==
    a <= b /\ b <= Len(s) /\ is_char_boundary(s, a) /\ is_char_boundary(s, b)
Slice(s, a, b) == SubSeq(s, a + 1, b)

\* String::insert(idx, ch)
InsertOk(s, idx) == idx <= Len(s) /\ is_char_boundary(s, idx)
Insert(s, idx, ch) == Slice(s, 0, idx) \o Encode(ch) \o Slice(s, idx, Len(s))

\* ---- selection ----
\* select_first_item that selects the first item on every render
select_first_item_always(len, state) ==
    IF len > 0 THEN Some(0) ELSE None

\* select_first_item without the reset on an empty list
select_first_item_noreset(len, state) ==
    IF len > 0 /\ state = None THEN Some(0) ELSE state

select_first_item(len, state) ==
    IF len > 0
    THEN IF state = None THEN Some(0) ELSE state
    ELSE None

\* move_selection that stops at the first item instead of wrapping
move_selection_nowrap(len, state, dir) ==
    IF len > 0
    THEN IF state # None
         THEN LET i == Unwrap(state) + dir
              IN Some(IF i < 0 THEN 0 ELSE i % len)
         ELSE None
    ELSE state

move_selection(len, state, dir) ==
    IF len > 0
    THEN IF state # None
         THEN LET i == Unwrap(state) + dir
              IN Some(IF i < 0 THEN len - 1 ELSE i % len)
         ELSE None
    ELSE state

\* ---- records of what happened ----
Op(op, key, res) == [op |-> op, key |-> key, res |-> res]
NoFrame == [kind |-> "none", item |-> None]

\* no run of (Tab, render) pairs is under way
NoCycle == [start |-> None, n |-> 0, previews |-> <<>>, armed |-> FALSE]

\* Tab on a list of len candidates with selection state: it continues the run
\* when the last step of the run was a render of the same list, and starts
\* a new run otherwise
cycle_tab(c, len, state) ==
    IF len = 0 THEN NoCycle
    ELSE IF c # NoCycle /\ ~c.armed /\ c.n = len /\ Len(c.previews) < c.n
    THEN [c EXCEPT !.armed = TRUE]
    ELSE [start |-> state, n |-> len, previews |-> <<>>, armed |-> TRUE]

\* a completed render of n candidates that showed frame: it extends the run
\* when it follows the Tab of the run and the list is the same
cycle_render(c, n, frame) ==
    IF c.armed /\ c.n = n /\ frame.kind = "preview"
    THEN [c EXCEPT !.armed = FALSE,
                   !.previews = Append(c.previews, Unwrap(frame.item))]
    ELSE NoCycle

Init ==
    /\ pc = "start"
    /\ running = FALSE
    /\ rawMode = FALSE
    /\ altScreen = FALSE
    /\ query = <<>>
    /\ prompt \in Prompts
    /\ cursor_index = 0
    /\ list_len = 0
    /\ list_state = None
    /\ completion = FALSE
    /\ index = None
    /\ last = Op("none", "none", "none")
    /\ shown = NoFrame
    /\ tabSince = FALSE
    /\ discarded = FALSE
    /\ restoreLog = <<>>
    /\ cycle = NoCycle

\* ---- App::init ----
InitFailures == {"none", "enable_raw_mode", "EnterAlternateScreen", "Terminal::new"}

init(failAt) ==
    /\ pc = "start"
    /\ cycle' = NoCycle
    /\ rawMode' = (failAt # "enable_raw_mode")
    /\ altScreen' = (failAt \notin {"enable_raw_mode", "EnterAlternateScreen"})
    /\ running' = (failAt = "none")
    /\ pc' = IF failAt = "none" THEN "live" ELSE "initfailed"
    /\ last' = Op("init", "none", IF failAt = "none" THEN "ok" ELSE "err")
    /\ UNCHANGED <<query, prompt, cursor_index, list_len, list_state,
                   completion, index, shown, tabSince, discarded, restoreLog>>

\* ---- App::set_prompt ----
set_prompt(p) ==
    /\ pc = "live"
    /\ cycle' = NoCycle
    /\ running
    /\ p # prompt
    /\ prompt' = p
    /\ last' = Op("set_prompt", "none", "ok")
    /\ UNCHANGED <<pc, running, rawMode, altScreen, query, cursor_index,
                   list_len, list_state, completion, index, shown, tabSince,
                   discarded, restoreLog>>

\* ---- App::update ----
\* the preview lookup list[self.list_state.selected().unwrap()] of a list of
\* n candidates: unwrap panics on None, the index panics out of bounds
PreviewOk(n, state) == state # None /\ Unwrap(state) < n

\* the content of the input field: the selected candidate or prompt + query
input_field(c, state) ==
    IF c THEN [kind |-> "preview", item |-> state]
    ELSE [kind |-> "text", item |-> None]

\* a draw closure that forgets to clear the flag
draw_completion_kept(c) == c

\* the value the draw closure leaves in self.completion
draw_completion(c) == FALSE

\* how Terminal::draw can end: it fails before it runs the closure (resize),
\* or after it (flush), or succeeds
DrawOutcomes == {"ok", "err_before", "err_after"}

update(n, outcome) ==
    LET sel == select_first_item(n, list_state)
        ranClosure == outcome # "err_before"
        panics == ranClosure /\ completion /\ ~PreviewOk(n, sel)
    IN
    /\ pc = "live"
    /\ running
    /\ list_len' = n
    /\ list_state' = sel
    /\ IF panics
       THEN /\ pc' = "unwinding"
            /\ last' = Op("update", "none", "panic")
            /\ cycle' = NoCycle
            /\ UNCHANGED <<completion, shown, tabSince>>
       ELSE /\ pc' = IF outcome = "ok" THEN "live" ELSE "failed"
            /\ cycle' = IF outcome = "ok"
                        THEN cycle_render(cycle, n, input_field(completion, sel))
                        ELSE NoCycle
            /\ last' = Op("update", "none", IF outcome = "ok" THEN "ok" ELSE "err")
            /\ completion' = IF ranClosure THEN draw_completion(completion) ELSE completion
            /\ shown' = IF outcome = "ok" THEN input_field(completion, sel) ELSE shown
            /\ tabSince' = IF outcome = "ok" THEN FALSE ELSE tabSince
    /\ UNCHANGED <<running, rawMode, altScreen, query, prompt, cursor_index,
                   index, discarded, restoreLog>>

\* ---- App::wait_input ----
\* the caller enters wait_input, which blocks in read()
wait_input ==
    /\ pc = "live"
    /\ cycle' = cycle
    /\ running
    /\ pc' = "waiting"
    /\ discarded' = FALSE
    /\ last' = Op("wait_input", "none", "blocked")
    /\ UNCHANGED <<running, rawMode, altScreen, query, prompt, cursor_index,
                   list_len, list_state, completion, index, shown, tabSince,
                   restoreLog>>

\* read() fails: the error is returned to the caller
read_error ==
    /\ pc = "waiting"
    /\ cycle' = NoCycle
    /\ pc' = "failed"
    /\ last' = Op("wait_input", "none", "err")
    /\ UNCHANGED <<running, rawMode, altScreen, query, prompt, cursor_index,
                   list_len, list_state, completion, index, shown, tabSince,
                   discarded, restoreLog>>

\* an event filter that returns to the caller on an unrecognized key
read_ignored_returns(e) ==
    /\ pc = "waiting"
    /\ cycle' = cycle
    /\ discarded' = TRUE
    /\ pc' = IF e = "Esc" THEN "live" ELSE pc
    /\ last' = IF e = "Esc" THEN Op("wait_input", e, "continue") ELSE last
    /\ UNCHANGED <<running, rawMode, altScreen, query, prompt,
                   cursor_index, list_len, list_state, completion, index,
                   shown, tabSince, restoreLog>>

\* a non-key event, a key release or an unrecognized key: the loop reads on
read_ignored(e) ==
    /\ pc = "waiting"
    /\ cycle' = cycle
    /\ discarded' = TRUE
    /\ UNCHANGED <<pc, last, running, rawMode, altScreen, query, prompt,
                   cursor_index, list_len, list_state, completion, index,
                   shown, tabSince, restoreLog>>

\* wait_input returns Ok(exit) after key; on Ok(true) the caller leaves its
\* input loop, and only shuts the session down
Return(key, exit) ==
    /\ pc' = IF exit THEN "stopped" ELSE "live"
    /\ last' = Op("wait_input", key, IF exit THEN "exit" ELSE "continue")

\* wait_input panics while it handles key
Panic(key) ==
    /\ pc' = "unwinding"
    /\ last' = Op("wait_input", key, "panic")

\* a Ctrl+C check that does not end the input loop
key_ctrl_c_continue ==
    /\ pc = "waiting"
    /\ cycle' = NoCycle
    /\ Return("Ctrl+C", FALSE)
    /\ UNCHANGED <<running, rawMode, altScreen, query, prompt, cursor_index,
                   list_len, list_state, completion, index, shown, tabSince,
                   discarded, restoreLog>>

key_ctrl_c ==
    /\ pc = "waiting"
    /\ cycle' = NoCycle
    /\ Return("Ctrl+C", TRUE)
    /\ UNCHANGED <<running, rawMode, altScreen, query, prompt, cursor_index,
                   list_len, list_state, completion, index, shown, tabSince,
                   discarded, restoreLog>>

key_char(ch) ==
    /\ pc = "waiting"
    /\ cycle' = NoCycle
    /\ IF cursor_index = Len(query)
       THEN /\ Len(query) + Len(Encode(ch)) <= MaxQuery
            /\ query' = query \o Encode(ch)
            /\ cursor_index' = cursor_index + 1
            /\ Return("Char", FALSE)
       ELSE IF InsertOk(query, cursor_index)
       THEN /\ Len(query) + Len(Encode(ch)) <= MaxQuery
            /\ query' = Insert(query, cursor_index, ch)
            /\ cursor_index' = cursor_index + 1
            /\ Return("Char", FALSE)
       ELSE /\ Panic("Char")
            /\ UNCHANGED <<query, cursor_index>>
    /\ UNCHANGED <<running, rawMode, altScreen, prompt, list_len, list_state,
                   completion, index, shown, tabSince, discarded, restoreLog>>

key_backspace(key) ==
    /\ pc = "waiting"
    /\ cycle' = NoCycle
    /\ IF cursor_index > 0
       THEN IF /\ SliceOk(query, 0, cursor_index - 1)
               /\ SliceOk(query, cursor_index, Len(query))
            THEN /\ query' = Slice(query, 0, cursor_index - 1)
                                \o Slice(query, cursor_index, Len(query))
                 /\ cursor_index' = cursor_index - 1
                 /\ Return(key, FALSE)
            ELSE /\ Panic(key)
                 /\ UNCHANGED <<query, cursor_index>>
       ELSE /\ Return(key, FALSE)
            /\ UNCHANGED <<query, cursor_index>>
    /\ UNCHANGED <<running, rawMode, altScreen, prompt, list_len, list_state,
                   completion, index, shown, tabSince, discarded, restoreLog>>

\* an Up arm that also cancels the preview
key_up_clears ==
    /\ pc = "waiting"
    /\ cycle' = NoCycle
    /\ list_state' = move_selection(list_len, list_state, -1)
    /\ completion' = FALSE
    /\ Return("Up", FALSE)
    /\ UNCHANGED <<running, rawMode, altScreen, query, prompt, cursor_index,
                   list_len, index, shown, tabSince, discarded, restoreLog>>

key_up ==
    /\ pc = "waiting"
    /\ cycle' = NoCycle
    /\ list_state' = move_selection(list_len, list_state, -1)
    /\ Return("Up", FALSE)
    /\ UNCHANGED <<running, rawMode, altScreen, query, prompt, cursor_index,
                   list_len, completion, index, shown, tabSince, discarded,
                   restoreLog>>

key_down ==
    /\ pc = "waiting"
    /\ cycle' = NoCycle
    /\ list_state' = move_selection(list_len, list_state, 1)
    /\ Return("Down", FALSE)
    /\ UNCHANGED <<running, rawMode, altScreen, query, prompt, cursor_index,
                   list_len, completion, index, shown, tabSince, discarded,
                   restoreLog>>

\* a Left arm that wraps around to the end of the query
key_left_wraps ==
    /\ pc = "waiting"
    /\ cycle' = NoCycle
    /\ cursor_index' = IF cursor_index > 0 THEN cursor_index - 1 ELSE Len(query)
    /\ Return("Left", FALSE)
    /\ UNCHANGED <<running, rawMode, altScreen, query, prompt, list_len,
                   list_state, completion, index, shown, tabSince, discarded,
                   restoreLog>>

key_left ==
    /\ pc = "waiting"
    /\ cycle' = NoCycle
    /\ cursor_index' = IF cursor_index > 0 THEN cursor_index - 1 ELSE cursor_index
    /\ Return("Left", FALSE)
    /\ UNCHANGED <<running, rawMode, altScreen, query, prompt, list_len,
                   list_state, completion, index, shown, tabSince, discarded,
                   restoreLog>>

key_right ==
    /\ pc = "waiting"
    /\ cycle' = NoCycle
    /\ cursor_index' = IF cursor_index < Len(query) THEN cursor_index + 1
                       ELSE cursor_index
    /\ Return("Right", FALSE)
    /\ UNCHANGED <<running, rawMode, altScreen, query, prompt, list_len,
                   list_state, completion, index, shown, tabSince, discarded,
                   restoreLog>>

\* the value Enter writes to the out-parameter
enter_index(state) == state

\* an Enter arm that always reports exit
enter_exit_always(idx) == TRUE

\* whether Enter makes wait_input report exit
enter_exit(idx) == idx # None

key_enter ==
    /\ pc = "waiting"
    /\ cycle' = NoCycle
    /\ index' = enter_index(list_state)
    /\ Return("Enter", enter_exit(index'))
    /\ UNCHANGED <<running, rawMode, altScreen, query, prompt, cursor_index,
                   list_len, list_state, completion, shown, tabSince,
                   discarded, restoreLog>>

\* a Tab arm that activates the preview whatever the list holds
tab_completion_always(len) == TRUE

\* the value Tab gives self.completion
tab_completion(len) == TRUE /\ len > 0

key_tab ==
    /\ pc = "waiting"
    /\ cycle' = cycle_tab(cycle, list_len, list_state)
    /\ completion' = tab_completion(list_len)
    /\ list_state' = move_selection(list_len, list_state, 1)
    /\ tabSince' = TRUE
    /\ Return("Tab", FALSE)
    /\ UNCHANGED <<running, rawMode, altScreen, query, prompt, cursor_index,
                   list_len, index, shown, discarded, restoreLog>>

\* ---- App::exit ----
\* the restoration steps of exit, in the order exit calls them
RestoreSteps == <<"disable_raw_mode", "LeaveAlternateScreen", "show_cursor">>
ExitFailures == {"none", "disable_raw_mode", "LeaveAlternateScreen", "show_cursor"}

StepIndex(step) == CHOOSE k \in 1..Len(RestoreSteps) : RestoreSteps[k] = step

\* the steps exit gets through when step failAt fails: every step is
\* unwrapped, so the first failure panics and the later steps never run
exit_attempts(failAt) ==
    IF failAt = "none"
    THEN [k \in 1..Len(RestoreSteps) |-> [step |-> RestoreSteps[k], ok |-> TRUE]]
    ELSE [k \in 1..StepIndex(failAt) |->
              [step |-> RestoreSteps[k], ok |-> RestoreSteps[k] # failAt]]

\* whether exit panics when step failAt fails
exit_panics(failAt) == running /\ failAt # "none"

\* the body of exit: the changes it makes to the session and the terminal
exit_body(failAt) ==
    IF running
    THEN /\ restoreLog' = restoreLog \o exit_attempts(failAt)
         /\ rawMode' = IF failAt = "disable_raw_mode" THEN rawMode ELSE FALSE
         /\ altScreen' = IF failAt \in {"disable_raw_mode", "LeaveAlternateScreen"}
                         THEN altScreen ELSE FALSE
         /\ running' = (failAt # "none")
    ELSE UNCHANGED <<restoreLog, rawMode, altScreen, running>>

\* the caller calls exit
exit(failAt) ==
    /\ pc \in {"live", "stopped"}
    /\ cycle' = NoCycle
    /\ running \/ failAt = "none"
    /\ exit_body(failAt)
    /\ pc' = IF exit_panics(failAt) THEN "unwinding" ELSE pc
    /\ last' = Op("exit", "none", IF exit_panics(failAt) THEN "panic" ELSE "ok")
    /\ UNCHANGED <<query, prompt, cursor_index, list_len, list_state,
                   completion, index, shown, tabSince, discarded>>

\* ---- impl Drop for App ----
\* the App goes out of scope: at the end of the caller's scope, when an
\* error is propagated, or while a panic unwinds; a panic of exit during
\* unwinding aborts the process
drop(failAt) ==
    /\ pc \in {"live", "stopped", "failed", "unwinding"}
    /\ cycle' = NoCycle
    /\ running \/ failAt = "none"
    /\ exit_body(failAt)
    /\ pc' = IF exit_panics(failAt)
             THEN (IF pc = "unwinding" THEN "aborted" ELSE "panicked")
             ELSE "dropped"
    /\ last' = Op("drop", "none", IF exit_panics(failAt) THEN "panic" ELSE "ok")
    /\ UNCHANGED <<query, prompt, cursor_index, list_len, list_state,
                   completion, index, shown, tabSince, discarded>>

Next ==
    \/ \E f \in InitFailures : init(f)
    \/ \E p \in Prompts : set_prompt(p)
    \/ \E n \in 0..MaxList, o \in DrawOutcomes : update(n, o)
    \/ wait_input
    \/ read_error
    \/ \E e \in IgnoredEvents : read_ignored(e)
    \/ key_ctrl_c
    \/ \E ch \in Chars : key_char(ch)
    \/ \E k \in {"Backspace", "Delete"} : key_backspace(k)
    \/ key_up
    \/ key_down
    \/ key_left
    \/ key_right
    \/ key_enter
    \/ key_tab
    \/ \E f \in ExitFailures : exit(f)
    \/ \E f \in ExitFailures : drop(f)

Spec == Init /\ [][Next]_vars

\* the states in which the App is gone and the process does nothing more
Final == {"initfailed", "dropped", "panicked", "aborted"}

TypeOK ==
    /\ pc \in {"start", "initfailed", "live", "waiting", "stopped", "failed", "unwinding",
               "dropped", "panicked", "aborted"}
    /\ running \in BOOLEAN /\ rawMode \in BOOLEAN /\ altScreen \in BOOLEAN
    /\ Len(query) <= MaxQuery
    /\ cursor_index \in 0..MaxQuery
    /\ list_len \in 0..MaxList
    /\ list_state \subseteq 0..MaxList /\ Cardinality(list_state) <= 1
    /\ completion \in BOOLEAN /\ tabSince \in BOOLEAN
    /\ discarded \in BOOLEAN

\* ---- properties ----
InRange(state, len) == state # None /\ Unwrap(state) < len

\* C1: whenever the selection is set it is an index into the most recently
\* rendered list, 0 <= selection < list_len; a render with a shorter list
\* clamps or resets it.
C1_SelectionInRange == list_state # None => Unwrap(list_state) < list_len

\* C2: in every reachable state the selection is None exactly when
\* list_len = 0.
C2_NoneIffEmpty == (list_state = None) <=> (list_len = 0)

\* Down moved the selection of a rendered, non-empty list around to the first
\* item, and the selection is still set
C2_Witness ==
    /\ last = Op("wait_input", "Down", "continue")
    /\ list_len > 1
    /\ list_state = Some(0)

\* C3: in every reachable state 0 <= cursor_index <= len(query), both
\* measured in characters.
C3_CursorWithinChars == 0 <= cursor_index /\ cursor_index <= CharCount(query)

\* C4: every key event is handled without a panic: wait_input never aborts
\* while it applies a transition.
C4_KeyEventsTotal == ~(last.op = "wait_input" /\ last.res = "panic")

\* C5: on every exit path, a failed init included, the final state has raw
\* mode disabled and the alternate screen left.
C5_TerminalReleased == pc \in Final => (~rawMode /\ ~altScreen)

\* C6: when a restoration step of exit fails, the remaining steps are still
\* attempted, and the failure does not abort the shutdown with a panic.
C6_BestEffortShutdown ==
    /\ \A k \in DOMAIN restoreLog :
         ~restoreLog[k].ok =>
            \A j \in (StepIndex(restoreLog[k].step) + 1)..Len(RestoreSteps) :
               LET at == k + j - StepIndex(restoreLog[k].step)
               IN at \in DOMAIN restoreLog /\ restoreLog[at].step = RestoreSteps[j]
    /\ last.op \in {"exit", "drop"} => last.res # "panic"

\* how often a restoration step was performed successfully
Performed(step) ==
    Cardinality({k \in DOMAIN restoreLog :
                    restoreLog[k].step = step /\ restoreLog[k].ok})

\* C7: over any sequence of exit calls followed by drop, no restoration step
\* is performed more than once, and once the App is dropped each was
\* performed exactly once.
C7_RestoredExactlyOnce ==
    /\ \A k \in DOMAIN RestoreSteps : Performed(RestoreSteps[k]) <= 1
    /\ pc = "dropped" => \A k \in DOMAIN RestoreSteps : Performed(RestoreSteps[k]) = 1

\* C8: the completion preview is one-shot: every completed render leaves the
\* flag false, the flag is only ever true when a Tab was handled since the
\* last render, and a render with no Tab since the previous one shows
\* prompt + query.
C8_OneShotPreview ==
    /\ [][(last'.op = "update" /\ last'.res = "ok") =>
            /\ ~completion'
            /\ (~tabSince => shown'.kind = "text")]_vars
    /\ [](completion => tabSince)

\* a render showed the preview and cleared the flag
C8_Witness ==
    /\ last = Op("update", "none", "ok")
    /\ shown.kind = "preview"
    /\ ~completion

\* n steps of move_selection in direction dir
RECURSIVE StepN(_, _, _, _)
StepN(len, state, dir, n) ==
    IF n = 0 THEN state
    ELSE StepN(len, move_selection(len, state, dir), dir, n - 1)

\* C9: with 0 <= i < list_len, Up yields (i - 1) mod list_len and Down yields
\* (i + 1) mod list_len; list_len Downs (or Ups) return to the start and Down
\* followed by Up is the identity.
C9_Wraparound ==
    /\ [][(last'.op = "wait_input" /\ InRange(list_state, list_len)) =>
            /\ last'.key = "Up" =>
                 list_state' = Some((Unwrap(list_state) + list_len - 1) % list_len)
            /\ last'.key = "Down" =>
                 list_state' = Some((Unwrap(list_state) + 1) % list_len)]_vars
    /\ [](InRange(list_state, list_len) =>
            /\ StepN(list_len, list_state, 1, list_len) = list_state
            /\ StepN(list_len, list_state, -1, list_len) = list_state
            /\ move_selection(list_len, move_selection(list_len, list_state, 1), -1)
                 = list_state)

\* Up wrapped from the first item to the last one
C9_Witness ==
    /\ last = Op("wait_input", "Up", "continue")
    /\ list_len = MaxList
    /\ list_state = Some(list_len - 1)
    /\ shown.kind = "text"

\* C10: Enter reports exit exactly when the selection is set and writes the
\* selection to the out-parameter; with no selection it reports continue and
\* writes None; query, cursor_index, selection and completion are unchanged.
C10_Enter ==
    [][(last'.op = "wait_input" /\ last'.key = "Enter") =>
          /\ index' = list_state
          /\ (last'.res = "exit") <=> (list_state # None)
          /\ list_state = None => (last'.res = "continue" /\ index' = None)
          /\ UNCHANGED <<query, cursor_index, list_state, completion>>]_vars

\* Enter confirmed the current selection
C10_Witness ==
    /\ last = Op("wait_input", "Enter", "exit")
    /\ index # None
    /\ index = list_state
\* C11: from every state Ctrl+C makes wait_input report exit at once, without
\* inserting the character, without changing a session field and without
\* writing a confirmed index: the out-parameter holds what it held, which is
\* None when no Enter had confirmed a selection.
C11_CtrlC ==
    /\ [][(last'.op = "wait_input" /\ last'.key = "Ctrl+C") =>
            /\ last'.res = "exit"
            /\ pc' = "stopped"
            /\ UNCHANGED <<running, query, prompt, cursor_index, list_len,
                           list_state, completion, index>>]_vars
    /\ [](last.key = "Ctrl+C" => index = None)

\* Ctrl+C ended a session that had a query, a selection and an active preview
C11_Witness ==
    /\ last = Op("wait_input", "Ctrl+C", "exit")
    /\ Len(query) > 0
    /\ list_state # None
    /\ completion
    /\ index = None
\* the characters of a UTF-8 string (str::chars)
RECURSIVE Decode(_)
Decode(s) ==
    IF s = <<>> THEN <<>>
    ELSE IF s[1] = 97 THEN <<"a">> \o Decode(Tail(s))
    ELSE IF s[1] = 98 THEN <<"b">> \o Decode(Tail(s))
    ELSE <<"e_acute">> \o Decode(SubSeq(s, 3, Len(s)))

\* the reference sequence operations on a query q of characters
InsertAt(q, c, ch) == SubSeq(q, 1, c) \o <<ch>> \o SubSeq(q, c + 1, Len(q))
DeleteBefore(q, c) == SubSeq(q, 1, c - 1) \o SubSeq(q, c + 1, Len(q))

\* C12: inserting ch at cursor c in query q yields q[0..c] + ch + q[c..] with
\* cursor c + 1; Backspace or Delete with c > 0 yields q[0..c-1] + q[c..]
\* with cursor c - 1 (so insert followed by Backspace restores the query).
C12_BufferEdits ==
    [][(last'.op = "wait_input") =>
          /\ last'.key = "Char" =>
               /\ cursor_index <= Len(Decode(query))
               /\ \E ch \in Chars :
                     Decode(query') = InsertAt(Decode(query), cursor_index, ch)
               /\ cursor_index' = cursor_index + 1
          /\ (last'.key \in {"Backspace", "Delete"} /\ cursor_index > 0) =>
               /\ cursor_index <= Len(Decode(query))
               /\ Decode(query') = DeleteBefore(Decode(query), cursor_index)
               /\ cursor_index' = cursor_index - 1]_vars
C14_Tab ==
    /\ [][(last'.op = "wait_input" /\ last'.key = "Tab") =>
            /\ completion' = (list_len > 0)
            /\ list_len = 0 => (list_state' = None /\ ~completion')
            /\ list_len > 0 =>
                 /\ list_state # None
                 /\ list_state' = Some((Unwrap(list_state) + 1) % list_len)]_vars
    /\ [][(last'.op = "update" /\ last'.res = "ok") =>
            /\ ~completion => shown' = [kind |-> "text", item |-> None]
            /\ completion => shown' = [kind |-> "preview", item |-> list_state']
            /\ (completion /\ list_len' = list_len) => list_state' = list_state]_vars

\* after Tab, the render of three candidates previewed the second one
C14_Witness ==
    /\ last = Op("update", "none", "ok")
    /\ list_len = 3
    /\ list_state = Some(1)
    /\ shown = [kind |-> "preview", item |-> Some(1)]
\* C15: with an unchanged list of N > 0 candidates, repeating (Tab, render)
\* previews one candidate per render, consecutive previews are consecutive
\* candidates with wraparound, and N repetitions show every candidate once
\* and return the selection to where it started.
C15_TabCycle ==
    cycle.previews # <<>> =>
        /\ \A k \in DOMAIN cycle.previews : cycle.previews[k] \in 0..(cycle.n - 1)
        /\ \A k \in 2..Len(cycle.previews) :
              cycle.previews[k] = (cycle.previews[k - 1] + 1) % cycle.n
        /\ Len(cycle.previews) = cycle.n =>
              /\ {cycle.previews[k] : k \in DOMAIN cycle.previews} = 0..(cycle.n - 1)
              /\ ~cycle.armed => list_state = cycle.start
\* the keys of the dispatch table
RecognizedKeys ==
    {"Ctrl+C", "Char", "Backspace", "Delete", "Up", "Down", "Left", "Right",
     "Enter", "Tab"}

\* C16: a non-key event, a key release or an unrecognized key changes no
\* session field and does not end wait_input; wait_input returns only by
\* applying the transition of one recognized key, and the delivery of a
\* recognized key always ends the wait.
C16_IgnoredEvents ==
    /\ [][(pc = "waiting" /\ pc' = "waiting") =>
            UNCHANGED <<running, rawMode, altScreen, query, prompt,
                        cursor_index, list_len, list_state, completion, index,
                        last, shown, tabSince>>]_vars
    /\ [][(pc = "waiting" /\ pc' \in {"live", "stopped"}) =>
            (last'.op = "wait_input" /\ last'.key \in RecognizedKeys)]_vars
    /\ [][(pc = "waiting" /\ last'.key \in RecognizedKeys) =>
            pc' # "waiting"]_vars

\* wait_input discarded an event, kept blocking, and returned on a later key
C16_Witness ==
    /\ pc = "live"
    /\ discarded
    /\ last = Op("wait_input", "Down", "continue")
    /\ list_state = Some(1)
\* C17: character, Backspace/Delete, Left and Right leave selection, list_len
\* and the completion flag unchanged; Up and Down leave query, cursor_index
\* and the completion flag unchanged; Tab leaves query and cursor_index
\* unchanged; no key event changes prompt, list_len or running.
C17_KeyFrames ==
    [][(last'.op = "wait_input") =>
          /\ last'.key \in {"Char", "Backspace", "Delete", "Left", "Right"} =>
               UNCHANGED <<list_state, list_len, completion>>
          /\ last'.key \in {"Up", "Down"} =>
               UNCHANGED <<query, cursor_index, completion>>
          /\ last'.key = "Tab" => UNCHANGED <<query, cursor_index>>
          /\ last'.key \in RecognizedKeys =>
               UNCHANGED <<prompt, list_len, running>>]_vars

\* Up moved the selection and left the query and the pending preview alone
C17_Witness ==
    /\ last = Op("wait_input", "Up", "continue")
    /\ completion
    /\ Len(query) > 0
    /\ cursor_index > 0
\* C18: a render of n candidates records list_len = n, sets the selection to
\* 0 when n > 0 and it was None, to None when n = 0, and leaves it untouched
\* otherwise; it never changes query, cursor_index or prompt.
C18_RenderStep ==
    [][\A n \in 0..MaxList, o \in DrawOutcomes :
          update(n, o) =>
             /\ list_len' = n
             /\ (n > 0 /\ list_state = None) => list_state' = Some(0)
             /\ n = 0 => list_state' = None
             /\ (n > 0 /\ list_state # None) => list_state' = list_state
             /\ UNCHANGED <<query, cursor_index, prompt>>]_vars

\* a render of the full list kept the selection the keys had moved to its
\* last item
C18_Witness ==
    /\ last = Op("update", "none", "ok")
    /\ list_len = MaxList
    /\ list_state = Some(MaxList - 1)
    /\ Len(query) > 0
\* C19: whenever a render runs with the completion flag active, the selection
\* is a valid index into the list supplied to that render, whatever list the
\* caller supplies after the Tab: the preview lookup never fails.
C19_PreviewLookup == ~(last = Op("update", "none", "panic"))

\* C20: whenever Enter makes wait_input report exit, the confirmed index is a
\* valid index into the list of the most recent render.
C20_ConfirmedIndexValid ==
    last = Op("wait_input", "Enter", "exit") => InRange(index, list_len)
====
